---- MODULE Spec2Model ----
(***************************************************************************)
(* The subprocess RPC clients of scripts/ai-implement.js:                  *)
(*   callMcpMethod      one readline interface and one 30000 ms timer per  *)
(*                      call, every interface reading the one stdout pipe  *)
(*                      of the MCP child process;                          *)
(*   executeMcpCommand  one readline interface for the session, one line   *)
(*                      handler per call, no timer;                        *)
(*   processMcpToolUse  one 'data' listener per call that accumulates the  *)
(*                      raw output, and a once-listener on stderr.         *)
(*                                                                         *)
(* Time is counted in milliseconds and advances in steps of TickMs.  The   *)
(* child is an arbitrary writer of lines on its stdout.  A line is either  *)
(* the JSON text of a value or text that is no JSON.                       *)
(***************************************************************************)
EXTENDS Integers, Sequences, FiniteSets, TLC

\* ---------------------------------------------------------------- bounds
MaxCalls == 2        \* calls issued in one session
MaxId == 1           \* Math.random() ids are drawn from 0..MaxId
MaxBuf == 1          \* lines the stdout pipe holds undelivered
MaxData == 2         \* chunks processMcpToolUse accumulates in outputData
TickMs == 15000      \* granularity of the clock
StartMs == 1000      \* granularity of the clock of the start-up wait

\* ------------------------------------------------------ program constants
TIMEOUT_MS == 30000

Calls == 1..MaxCalls
Ids == 0..MaxId
MaxElapsed == TIMEOUT_MS + TickMs

\* ------------------------------------------------------------- JS values
Undefined == [t |-> "undefined"]
Null == [t |-> "null"]
Num(n) == [t |-> "number", n |-> n]
Str(s) == [t |-> "string", s |-> s]
\* {sha: s}
ShaObject(s) == [t |-> "object", shape |-> "sha", sha |-> s]
\* {content: [{type: "text", text: x}]}
ContentObject(x) == [t |-> "object", shape |-> "content", text |-> x]
\* {content: []}
EmptyContent == [t |-> "object", shape |-> "nocontent"]
\* {code: c, message: m}
ErrorObject(c, m) == [t |-> "object", shape |-> "error", code |-> c, message |-> m]
\* {id: i, result: r, error: e}; an absent field is Undefined
Envelope(i, r, e) == [t |-> "object", shape |-> "envelope", id |-> i, result |-> r, error |-> e]

Truthy(v) ==
  CASE v.t = "undefined" -> FALSE
    [] v.t = "null" -> FALSE
    [] v.t = "number" -> v.n # 0
    [] v.t = "string" -> v.s # ""
    [] OTHER -> TRUE

\* the texts a server puts in result.content[0].text
Texts == {"{\"sha\":\"def456\"}", "README missing", "", "null"}

\* JSON.parse of a text; ok = FALSE is a SyntaxError
JSONParseText(s) ==
  CASE s = "{\"sha\":\"def456\"}" -> [ok |-> TRUE, val |-> ShaObject("def456")]
    [] s = "null" -> [ok |-> TRUE, val |-> Null]
    [] OTHER -> [ok |-> FALSE, val |-> Undefined]

\* JSON.stringify of an error payload
JSONStringify(v) ==
  CASE v = ErrorObject(404, "Not Found") -> "{\"code\":404,\"message\":\"Not Found\"}"
    [] v = ErrorObject(500, "Server Error") -> "{\"code\":500,\"message\":\"Server Error\"}"
    [] v = Null -> "null"
    [] OTHER -> "undefined"

\* response.result?.content?.[0]?.text
ContentText(result) ==
  IF result.t = "object" /\ result.shape = "content" THEN Str(result.text) ELSE Undefined

\* a line of the child's stdout: the JSON text of val, or text that is no JSON
JsonLine(v) == [json |-> TRUE, val |-> v, raw |-> ""]
TextLine(s) == [json |-> FALSE, val |-> Undefined, raw |-> s]
NoLine == [json |-> FALSE, val |-> Undefined, raw |-> "<none>"]

\* JSON.parse(line)
JSONParse(line) ==
  IF line.json THEN [ok |-> TRUE, val |-> line.val] ELSE [ok |-> FALSE, val |-> Undefined]

\* ------------------------------------------------ callMcpMethod.onLine
\* what a handler run asks for: nothing, a settlement, or a thrown exception
Nothing == [act |-> "nothing", val |-> Undefined]
Throw == [act |-> "throw", val |-> Undefined]
Resolve(v) == [act |-> "resolve", val |-> v]
\* new Error(msg): the parts of the message template
Error(msg) == [t |-> "error", message |-> msg]
Reject(msg) == [act |-> "reject", val |-> Error(msg)]

\* a replacement of DecodeResult: no decode
NoDecode(result) == result

\* lines 95-108: one level of decode of the result payload
DecodeResult(result) ==
  IF Truthy(ContentText(result))
  THEN LET resultText == ContentText(result)
           parsed == JSONParseText(resultText.s)
       IN IF parsed.ok THEN parsed.val ELSE resultText
  ELSE result

\* lines 516-525: the decode of the second version of callMcpMethod
DecodeResultV2(result) ==
  LET resultText == ContentText(result)
  IN IF Truthy(resultText)
     THEN LET parsed == JSONParseText(resultText.s)
          IN IF parsed.ok THEN parsed.val
             ELSE (IF Truthy(resultText) THEN resultText ELSE result)
     ELSE result

\* a replacement of IdMatches: the id of the response is not compared
AnyId(response, id) == response.t = "object" /\ response.shape = "envelope"

\* response.id === requestId; reading .id of null throws a TypeError
IdMatches(response, id) ==
  response.t = "object" /\ response.shape = "envelope" /\ response.id = id

\* a replacement of McpErrorMessage: the payload is left out
NoPayload(error) == <<"MCP error: ">>

McpErrorMessage(error) == <<"MCP error: ", JSONStringify(error)>>
TimeoutMessage(tool) == <<"Timeout waiting for response to tool ", tool>>

\* lines 88-110: the body of the try block after a successful parse
OnResponse(response, id) ==
  IF response.t \in {"null", "undefined"} THEN Throw
  ELSE IF ~IdMatches(response, id) THEN Nothing
  ELSE IF Truthy(response.error) THEN Reject(McpErrorMessage(response.error))
  ELSE Resolve(DecodeResult(response.result))

\* lines 511-527: the same in the second version
OnResponseV2(response, id) ==
  IF response.t \in {"null", "undefined"} THEN Throw
  ELSE IF ~IdMatches(response, id) THEN Nothing
  ELSE IF Truthy(response.error) THEN Reject(McpErrorMessage(response.error))
  ELSE Resolve(DecodeResultV2(response.result))

\* lines 111-113: the catch of onLine logs and swallows
Catch(r) == IF r.act = "throw" THEN Nothing ELSE r

\* lines 80-114
onLine(line, id) ==
  LET parsed == JSONParse(line)
  IN Catch(IF parsed.ok THEN OnResponse(parsed.val, id) ELSE Throw)

\* lines 506-531
onLineV2(line, id) ==
  LET parsed == JSONParse(line)
  IN Catch(IF parsed.ok THEN OnResponseV2(parsed.val, id) ELSE Throw)


\* ------------------------------------- executeMcpCommand.messageHandler
\* resolves with response.result as it is: no decode
OnExecResponse(response, id) ==
  IF response.t \in {"null", "undefined"} THEN Throw
  ELSE IF ~IdMatches(response, id) THEN Nothing
  ELSE IF Truthy(response.error) THEN Reject(McpErrorMessage(response.error))
  ELSE Resolve(response.result)

messageHandler(line, id) ==
  LET parsed == JSONParse(line)
  IN Catch(IF parsed.ok THEN OnExecResponse(parsed.val, id) ELSE Throw)

\* ------------------------------------------------------------ the session
Impls == {"callMcpMethod", "executeMcpCommand"}

\* the flow calls these tools, in this order (lines 235, 258, 272)
ToolOrder == <<"get_file_contents", "create_or_update_file", "add_issue_comment">>
ToolOf(c) == ToolOrder[((c - 1) % Len(ToolOrder)) + 1]

\* the arguments object the flow passes with each tool
ArgumentsOf(tool) ==
  CASE tool = "get_file_contents" -> "{\"path\":\"README.md\"}"
    [] tool = "create_or_update_file" -> "{\"path\":\"README.md\",\"content\":\"...\"}"
    [] OTHER -> "{\"issue_number\":1,\"body\":\"...\"}"

\* what the server answers to the request with id i: its result, or its error
ResultFor(i) ==
  CASE i % 3 = 0 -> ShaObject("abc123")
    [] i % 3 = 1 -> ContentObject("{\"sha\":\"def456\"}")
    [] OTHER -> ContentObject("README missing")
ErrorFor(i) ==
  IF i % 2 = 0 THEN ErrorObject(404, "Not Found") ELSE ErrorObject(500, "Server Error")

\* what the child may write on its stdout
ResultLine(i) == JsonLine(Envelope(i, ResultFor(i), Undefined))
ErrorLine(i) == JsonLine(Envelope(i, Undefined, ErrorFor(i)))
ResponseLines == { ResultLine(i) : i \in Ids } \cup { ErrorLine(i) : i \in Ids }
DiagnosticLines ==
  { TextLine("warning: rate limit low"), JsonLine(Null), JsonLine(Num(5)) }
Lines == ResponseLines \cup DiagnosticLines

VARIABLES
  impl,        \* which client the script runs
  promise,     \* per call: "unissued", "pending", "resolved", "rejected"
  outcome,     \* per call: the value resolved with, or the Error's message
  requestId,   \* per call: the id drawn for the request
  toolName,    \* per call: the tool (command) called
  listening,   \* per call: its listener still gets what stdout emits
  timeout,     \* per call: "unset", "armed", "fired", "cleared"
  elapsed,     \* per call: ms since it was issued, counted while it is pending
  stdin,       \* requests written to the child's stdin
  stdout,      \* lines the child wrote that the stream has not emitted yet
  flowing,     \* mcpProcess.stdout is in flowing mode
  eof,         \* the child closed its stdout
  ended,       \* stdout has emitted 'end'
  escaped,     \* an exception left a handler
  outputData,  \* per call of processMcpToolUse: the chunks accumulated
  onceStderr,  \* per call of processMcpToolUse: its listener on stderr is on
  input,       \* the line and id given to the handlers run on their own
  handled,     \* what onLine and its second version did with input
  \* history, read by the properties only
  settledBy,   \* per call: the line whose handling settled it
  last,        \* the line stdout emitted in the last step, if it emitted one
  \* history recorded by TraceSpec only
  answered,    \* per call no response has settled: the first response the
               \* child wrote for it within its budget
  behind,      \* per call: lines that waited in the pipe when it was issued
  peers,       \* per call no response has settled: the calls it has been
               \* pending together with
  \* the orchestration flow around the session
  flow,        \* the flow that runs, "none" when the session is driven freely
  pc,          \* the flow's position
  flowPromise, \* the promise the flow returns: pending, resolved or rejected
  main,        \* main(): awaits the flow, runs its catch block, or is gone
  thrown,      \* the error the flow has thrown, undefined when none
  exit,        \* how the process ended and whether the outputs were written
  child,       \* the child process: none, spawned, failed (its 'error' event
               \* is due), dead (the event was emitted) or killed
  uptime,      \* ms since spawn, counted up to the end of the start-up wait
  listingMs,   \* ms the tools listing has waited while its timer is armed
  ran,         \* the steps of the flow that have run
  lineBuffer,  \* per call, the unterminated text its readline interface holds
  cut,         \* the line the child has written the first part of
  emitting,    \* per call, what the chunk being emitted still hands its handler
  notified,    \* what a handler was handed last
  cred,        \* per run of the script, the value of GITHUB_TOKEN
  envSet,      \* the other required environment variables that are set
  at,          \* per run, the position of the script
  childEnv,    \* per run, GITHUB_PERSONAL_ACCESS_TOKEN of the child's environment
  hostLog      \* per run, what the script has logged

callVars == <<promise, outcome, requestId, toolName, listening, timeout, elapsed>>
pipeVars == <<stdin, stdout, flowing, eof, ended>>
toolUseVars == <<outputData, onceStderr>>
handlerVars == <<input, handled>>
historyVars == <<settledBy, last>>
traceVars == <<answered, behind, peers>>
chunkVars == <<lineBuffer, cut, emitting, notified>>
credVars == <<cred, envSet, at, childEnv, hostLog>>
flowVars == <<flow, pc, flowPromise, main, child, thrown, exit, uptime, listingMs, ran>>
vars == <<impl, callVars, pipeVars, escaped, toolUseVars, handlerVars, historyVars,
          traceVars, chunkVars, credVars, flowVars>>

NotRun == <<[act |-> "notrun", val |-> Undefined], [act |-> "notrun", val |-> Undefined]>>
NoInput == [line |-> NoLine, id |-> -1]

\* the process has not ended: no exit code, no outputs written
NotExited == [code |-> -1, outputs |-> FALSE]

\* lines 415-422: process.exit(code), after the outputs of lines 408-412
\* were written or not
Exited(code, outputs) == [code |-> code, outputs |-> outputs]

\* no flow: the child runs and the caller uses the session as it likes
NoFlow ==
  /\ flow = "none"
  /\ pc = "none"
  /\ flowPromise = "pending"
  /\ main = "await"
  /\ thrown = Undefined
  /\ exit = NotExited
  /\ child = "spawned"
  /\ uptime = 0
  /\ listingMs = 0
  /\ ran = {}

Runs == {1, 2}

\* the script is past its start
NoRuns ==
  /\ cred = [r \in Runs |-> ""]
  /\ envSet = {}
  /\ at = [r \in Runs |-> "none"]
  /\ childEnv = [r \in Runs |-> ""]
  /\ hostLog = [r \in Runs |-> <<>>]

InitSession ==
  /\ promise = [c \in Calls |-> "unissued"]
  /\ outcome = [c \in Calls |-> Undefined]
  /\ requestId = [c \in Calls |-> -1]
  /\ toolName = [c \in Calls |-> "none"]
  /\ listening = [c \in Calls |-> FALSE]
  /\ timeout = [c \in Calls |-> "unset"]
  /\ elapsed = [c \in Calls |-> 0]
  /\ stdin = <<>>
  /\ stdout = <<>>
  /\ eof = FALSE
  /\ ended = FALSE
  /\ escaped = FALSE
  /\ outputData = [c \in Calls |-> <<>>]
  /\ onceStderr = [c \in Calls |-> FALSE]
  /\ settledBy = [c \in Calls |-> NoLine]
  /\ answered = [c \in Calls |-> "no"]
  /\ behind = [c \in Calls |-> 0]
  /\ peers = [c \in Calls |-> {}]
  /\ last = NoLine
  /\ lineBuffer = [c \in Calls |-> <<>>]
  /\ cut = NoLine
  /\ emitting = [c \in Calls |-> <<>>]
  /\ notified = <<>>

Init ==
  /\ impl \in Impls
  /\ InitSession
  /\ NoRuns
  /\ NoFlow
  \* runManualImplementation creates its one readline interface at start
  \* (part_000 line 110), which resumes stdout; the flows of callMcpMethod
  \* attach no reader before the first call
  /\ flowing = (impl = "executeMcpCommand")
  /\ input = NoInput
  /\ handled = NotRun

\* a replacement of ExistingSha: the sha of the file is never passed on
NoExistingSha(c) == <<>>

\* lines 231-247: readmeExists and existingSha after the flow's
\* get_file_contents, which is call c - 1: `if (result && result.sha)`; the
\* catch block of line 249 leaves both as they were. <<>> is no sha
ExistingSha(c) ==
  IF /\ c > 1
     /\ promise[c - 1] = "resolved"
     /\ outcome[c - 1].t = "object"
     /\ outcome[c - 1].shape = "sha"
     /\ outcome[c - 1].sha # ""
  THEN <<outcome[c - 1].sha>>
  ELSE <<>>

\* line 265: ...(readmeExists ? { sha: existingSha } : {}) in the arguments
\* of the flow's create_or_update_file; other callers pass no sha
ShaArgument(c) ==
  IF flow = "implementWithPrompt" /\ ToolOf(c) = "create_or_update_file"
  THEN ExistingSha(c)
  ELSE <<>>

\* lines 60-68: the request object, with the arguments of the caller
RequestWith(id, method, tool, sha) ==
  [jsonrpc |-> "2.0", id |-> id, method |-> method, name |-> tool,
   arguments |-> ArgumentsOf(tool), sha |-> sha]

\* part_000 lines 119-124, 201-209: `sha: readmeContent.sha` of a string is
\* undefined, which JSON.stringify leaves out
Request(id, method, tool) == RequestWith(id, method, tool, <<>>)

\* calls are issued in the order of their slots
NextCall(c) ==
  /\ promise[c] = "unissued"
  /\ \A d \in Calls : d < c => promise[d] # "unissued"

Pending == {c \in Calls : promise[c] = "pending"}
Settled(c) == promise[c] \in {"resolved", "rejected"}

\* a promise is settled by the first resolve or reject only
SettleState(old, r) ==
  IF old # "pending" THEN old
  ELSE IF r.act = "resolve" THEN "resolved"
  ELSE IF r.act = "reject" THEN "rejected"
  ELSE old

Settles(c, r) == promise[c] = "pending" /\ r.act \in {"resolve", "reject"}

\* a replacement of ClearTimeout: 'close' leaves the timer armed
KeepTimeout(t) == t

\* lines 125-127: the 'close' listener of the call's readline interface
\* clears the call's timer; clearing a timer that has fired changes nothing
ClearTimeout(t) == IF t = "armed" THEN "cleared" ELSE t

\* a replacement of Attach: the handler is attached after the event loop
\* has turned, when the response has passed
AttachLate(l, c, open) == l

\* line 116, part_000 line 146: rl.on('line', handler) runs in the executor
\* of the promise, in the tick that wrote the request; a closed interface
\* emits no line
Attach(l, c, open) == [l EXCEPT ![c] = open]

\* lines 57-128: the executor of callMcpMethod's promise
CallMcpMethod(c, id) ==
  /\ impl = "callMcpMethod"
  /\ NextCall(c)
  /\ promise' = [promise EXCEPT ![c] = "pending"]
  /\ requestId' = [requestId EXCEPT ![c] = id]
  /\ toolName' = [toolName EXCEPT ![c] = ToolOf(c)]
  /\ stdin' = Append(stdin, RequestWith(id, "call_tool", ToolOf(c), ShaArgument(c)))
  \* readline.createInterface listens to stdout and resumes it
  /\ listening' = Attach(listening, c, TRUE)
  /\ flowing' = TRUE
  /\ timeout' = [timeout EXCEPT ![c] = "armed"]
  /\ elapsed' = [elapsed EXCEPT ![c] = 0]
  /\ last' = NoLine
  /\ UNCHANGED <<impl, outcome, stdout, eof, ended, escaped, toolUseVars, handlerVars,
                 settledBy>>

\* part_000 lines 117-147
ExecuteMcpCommand(c, id) ==
  /\ impl = "executeMcpCommand"
  /\ NextCall(c)
  /\ promise' = [promise EXCEPT ![c] = "pending"]
  /\ requestId' = [requestId EXCEPT ![c] = id]
  /\ toolName' = [toolName EXCEPT ![c] = ToolOf(c)]
  /\ stdin' = Append(stdin, Request(id, ToolOf(c), ToolOf(c)))
  \* rl.on('line', messageHandler) on the session's interface
  /\ listening' = Attach(listening, c, ~ended)
  /\ elapsed' = [elapsed EXCEPT ![c] = 0]
  /\ last' = NoLine
  /\ UNCHANGED <<impl, outcome, timeout, stdout, flowing, eof, ended, escaped,
                 toolUseVars, handlerVars, settledBy>>

\* the handler run of call c on a line
Handle(c, line) ==
  IF impl = "callMcpMethod" THEN onLine(line, requestId[c])
  ELSE messageHandler(line, requestId[c])

\* the id a response carries
LineId(line) ==
  IF line.json /\ line.val.t = "object" /\ line.val.shape = "envelope" THEN line.val.id ELSE -1
\* a response whose id is the id of no pending call
Foreign(line) ==
  line \in ResponseLines /\ \A c \in Pending : requestId[c] # LineId(line)

\* stdout emits a line: every handler that listens runs on it
Deliver(line) ==
  LET got == [c \in Calls |-> IF listening[c] THEN Handle(c, line) ELSE Nothing]
      matched == {c \in Calls : got[c].act \in {"resolve", "reject"}}
  IN /\ promise' = [c \in Calls |-> SettleState(promise[c], got[c])]
     /\ outcome' = [c \in Calls |-> IF Settles(c, got[c]) THEN got[c].val ELSE outcome[c]]
     /\ settledBy' = [c \in Calls |-> IF Settles(c, got[c]) THEN line ELSE settledBy[c]]
     \* rl.close() (rl.off in executeMcpCommand) on a matching id
     /\ listening' = [c \in Calls |-> listening[c] /\ c \notin matched]
     \* Interface.close() pauses the stream the interface reads and emits
     \* 'close'
     /\ flowing' = IF impl = "callMcpMethod" /\ matched # {} THEN FALSE ELSE flowing
     /\ timeout' = [c \in Calls |-> IF c \in matched THEN ClearTimeout(timeout[c]) ELSE timeout[c]]
     \* the clock of a call stops when nothing of it is left to run
     /\ elapsed' = [c \in Calls |->
                      IF Settles(c, got[c]) /\ timeout'[c] # "armed" THEN 0 ELSE elapsed[c]]
     /\ escaped' = (escaped \/ \E c \in Calls : got[c].act = "throw")
     /\ last' = line

\* the flow kills the child once its last call has settled (lines 367-371,
\* part_000 lines 214 and 226)
Alive == \E c \in Calls : ~Settled(c)

\* the child writes one line on its stdout: a flowing stream with nothing
\* buffered emits it at once, otherwise the line waits in the pipe
ChildWrite(line) ==
  /\ impl \in Impls
  /\ Alive
  /\ ~eof
  /\ IF flowing /\ stdout = <<>>
     THEN Deliver(line) /\ UNCHANGED stdout
     ELSE /\ Len(stdout) < MaxBuf
          /\ stdout' = Append(stdout, line)
          /\ last' = NoLine
          /\ UNCHANGED <<promise, outcome, settledBy, listening, flowing, timeout,
                         elapsed, escaped>>
  /\ UNCHANGED <<impl, requestId, toolName, stdin, eof, ended, toolUseVars, handlerVars>>

\* a resumed stream emits the line that waited longest
StreamData ==
  /\ impl \in Impls
  /\ flowing
  /\ stdout # <<>>
  /\ Deliver(Head(stdout))
  /\ stdout' = Tail(stdout)
  /\ UNCHANGED <<impl, requestId, toolName, stdin, eof, ended, toolUseVars, handlerVars>>

\* stdout emits 'end': every readline interface on it closes, and a closing
\* interface emits 'close'
EmitEnd ==
  /\ ended' = TRUE
  /\ flowing' = FALSE
  /\ listening' = [c \in Calls |-> FALSE]
  /\ timeout' = [c \in Calls |-> IF listening[c] THEN ClearTimeout(timeout[c]) ELSE timeout[c]]

\* the child closes its stdout (it exits, or crashes): a flowing stream with
\* nothing buffered emits 'end' at once
ChildClose ==
  /\ impl \in Impls
  /\ Alive
  /\ ~eof
  /\ eof' = TRUE
  /\ IF flowing /\ stdout = <<>>
     THEN EmitEnd
     ELSE UNCHANGED <<ended, flowing, listening, timeout>>
  /\ last' = NoLine
  /\ UNCHANGED <<impl, promise, outcome, requestId, toolName, elapsed, stdin, stdout,
                 escaped, toolUseVars, handlerVars, settledBy>>

\* a resumed stream emits 'end' once everything written was consumed
StreamEnd ==
  /\ impl \in Impls
  /\ flowing
  /\ eof
  /\ stdout = <<>>
  /\ ~ended
  /\ EmitEnd
  /\ last' = NoLine
  /\ UNCHANGED <<impl, promise, outcome, requestId, toolName, elapsed, stdin, stdout,
                 eof, escaped, toolUseVars, handlerVars, settledBy>>

\* the clock of a call runs while it is pending or its timer is armed
Running(c) == promise[c] = "pending" \/ timeout[c] = "armed"

\* line 122: the timer's delay has passed
Due(c) == timeout[c] = "armed" /\ elapsed[c] >= TIMEOUT_MS

\* lines 119-122: the timer's callback; rl.close() then reject
TimeoutFires(c) ==
  /\ Due(c)
  /\ timeout' = [timeout EXCEPT ![c] = "fired"]
  /\ listening' = [listening EXCEPT ![c] = FALSE]
  /\ flowing' = IF listening[c] THEN FALSE ELSE flowing
  /\ promise' = [promise EXCEPT ![c] = SettleState(promise[c], Reject(TimeoutMessage(toolName[c])))]
  /\ outcome' = [outcome EXCEPT ![c] =
                   IF promise[c] = "pending" THEN Error(TimeoutMessage(toolName[c]))
                   ELSE outcome[c]]
  /\ last' = NoLine
  /\ UNCHANGED <<impl, requestId, toolName, elapsed, stdin, stdout, eof, ended, escaped,
                 toolUseVars, handlerVars, settledBy>>

\* time passes for the pending calls; a due timer fires, and a flowing
\* stream emits what it holds, before time passes on
Tick ==
  /\ \E c \in Calls : Running(c) /\ elapsed[c] < MaxElapsed
  /\ \A c \in Calls : ~Due(c)
  /\ ~(flowing /\ (stdout # <<>> \/ (eof /\ ~ended)))
  /\ elapsed' = [c \in Calls |->
                   IF Running(c) /\ elapsed[c] < MaxElapsed
                   THEN elapsed[c] + TickMs ELSE elapsed[c]]
  /\ last' = NoLine
  /\ UNCHANGED <<impl, promise, outcome, requestId, toolName, listening, timeout,
                 pipeVars, escaped, toolUseVars, handlerVars, settledBy>>

\* the session: what the child wrote when, and which calls overlapped, is
\* not recorded
Next ==
  \/ \E c \in Calls, id \in Ids : CallMcpMethod(c, id) /\ UNCHANGED <<traceVars, credVars, chunkVars, flowVars>>
  \/ \E c \in Calls, id \in Ids : ExecuteMcpCommand(c, id) /\ UNCHANGED <<traceVars, credVars, chunkVars, flowVars>>
  \/ \E line \in Lines : ChildWrite(line) /\ UNCHANGED <<traceVars, credVars, chunkVars, flowVars>>
  \/ ChildClose /\ UNCHANGED <<traceVars, credVars, chunkVars, flowVars>>
  \/ StreamData /\ UNCHANGED <<traceVars, credVars, chunkVars, flowVars>>
  \/ StreamEnd /\ UNCHANGED <<traceVars, credVars, chunkVars, flowVars>>
  \/ \E c \in Calls : TimeoutFires(c) /\ UNCHANGED <<traceVars, credVars, chunkVars, flowVars>>
  \/ Tick /\ UNCHANGED <<traceVars, credVars, chunkVars, flowVars>>

Spec == Init /\ [][Next]_vars

\* the event loop runs a due timer's callback and the stream's events, and
\* time passes
FairSpec ==
  /\ Spec
  /\ WF_vars(Tick /\ UNCHANGED <<traceVars, credVars, chunkVars, flowVars>>)
  /\ WF_vars(StreamData /\ UNCHANGED <<traceVars, credVars, chunkVars, flowVars>>)
  /\ WF_vars(StreamEnd /\ UNCHANGED <<traceVars, credVars, chunkVars, flowVars>>)
  /\ \A c \in Calls : WF_vars(TimeoutFires(c) /\ UNCHANGED <<traceVars, credVars, chunkVars, flowVars>>)

\* ---- the session with its history recorded ----

\* call c is issued: the lines that wait in the pipe were written before it,
\* and it joins the pending calls
TraceCall(c) ==
  /\ behind' = [behind EXCEPT ![c] = Len(stdout)]
  /\ peers' = [d \in Calls |-> IF d = c THEN Pending
                              ELSE IF d \in Pending THEN peers[d] \cup {c} ELSE peers[d]]
  /\ UNCHANGED answered

\* the first response the child writes for a call: within its budget, or
\* after its timer has fired
Answers(line) ==
  [c \in Calls |->
     IF answered[c] = "no" /\ line \in ResponseLines /\ LineId(line) = requestId[c]
     THEN (IF promise[c] = "pending" /\ elapsed[c] < TIMEOUT_MS
           THEN (IF line = ResultLine(requestId[c]) THEN "result" ELSE "error")
           ELSE IF timeout[c] = "fired" THEN "late"
           ELSE "no")
     ELSE answered[c]]

\* the history of a call is dropped once a response has settled it
Forget(h, none) == [c \in Calls |-> IF settledBy'[c] # NoLine THEN none ELSE h[c]]

TraceWrite(line) ==
  /\ answered' = Forget(Answers(line), "no")
  /\ peers' = Forget(peers, {})
  /\ UNCHANGED behind

TraceData ==
  /\ answered' = Forget(answered, "no")
  /\ peers' = Forget(peers, {})
  /\ behind' = [c \in Calls |->
                  IF promise'[c] = "pending" /\ behind[c] > 0 THEN behind[c] - 1 ELSE behind[c]]

TraceTimeout(c) ==
  /\ behind' = [behind EXCEPT ![c] = 0]
  /\ UNCHANGED <<answered, peers>>

TraceNext ==
  \/ \E c \in Calls, id \in Ids : CallMcpMethod(c, id) /\ TraceCall(c) /\ UNCHANGED <<flowVars, chunkVars, credVars>>
  \/ \E c \in Calls, id \in Ids : ExecuteMcpCommand(c, id) /\ TraceCall(c) /\ UNCHANGED <<flowVars, chunkVars, credVars>>
  \/ \E line \in Lines : ChildWrite(line) /\ TraceWrite(line) /\ UNCHANGED <<flowVars, chunkVars, credVars>>
  \/ ChildClose /\ UNCHANGED <<traceVars, credVars, chunkVars, flowVars>>
  \/ StreamData /\ TraceData /\ UNCHANGED <<flowVars, chunkVars, credVars>>
  \/ StreamEnd /\ UNCHANGED <<traceVars, credVars, chunkVars, flowVars>>
  \/ \E c \in Calls : TimeoutFires(c) /\ TraceTimeout(c) /\ UNCHANGED <<flowVars, chunkVars, credVars>>
  \/ Tick /\ UNCHANGED <<traceVars, credVars, chunkVars, flowVars>>

TraceSpec == Init /\ [][TraceNext]_vars

\* ---- the line handlers on their own ----

\* the payloads and errors of the envelopes given to the handlers
Results ==
  {Undefined, ShaObject("abc123"), EmptyContent} \cup {ContentObject(x) : x \in Texts}
Errors == {Undefined, ErrorObject(404, "Not Found")}
HandlerLines ==
  {JsonLine(Envelope(i, r, e)) : i \in Ids, r \in Results, e \in Errors}
    \cup DiagnosticLines

DecodeInit ==
  /\ impl = "onLine"
  /\ InitSession
  /\ NoRuns
  /\ NoFlow
  /\ flowing = FALSE
  /\ input \in [line : HandlerLines, id : Ids]
  /\ handled = NotRun

\* stdout emits input.line to the onLine of a call whose requestId is input.id
RunOnLine ==
  /\ impl = "onLine"
  /\ handled = NotRun
  /\ handled' = <<onLine(input.line, input.id), onLineV2(input.line, input.id)>>
  /\ UNCHANGED <<impl, callVars, pipeVars, escaped, toolUseVars, input, historyVars,
                 traceVars, credVars, chunkVars>>

DecodeNext == RunOnLine /\ UNCHANGED flowVars

DecodeSpec == DecodeInit /\ [][DecodeNext]_vars

\* ---- processMcpToolUse (part_002 lines 26-59) ----

\* JSON.parse(outputData): the accumulated text is one JSON value exactly when
\* it is one line that is JSON
ParsesAsJSON(data) == Len(data) = 1 /\ JSONParse(data[1]).ok

\* the string outputData
Raw(data) == [t |-> "string", lines |-> data]

\* what the child writes on its stderr
StderrText == "npm warn deprecated"

ToolUseInit ==
  /\ impl = "processMcpToolUse"
  /\ InitSession
  /\ NoRuns
  /\ NoFlow
  \* runWithAI attaches no 'data' listener to stdout before the first call
  /\ flowing = FALSE
  /\ input = NoInput
  /\ handled = NotRun

\* part_002 lines 27-57: the executor of processMcpToolUse's promise
ProcessMcpToolUse(c) ==
  /\ impl = "processMcpToolUse"
  /\ NextCall(c)
  /\ promise' = [promise EXCEPT ![c] = "pending"]
  /\ toolName' = [toolName EXCEPT ![c] = ToolOf(c)]
  /\ stdin' = Append(stdin, ArgumentsOf(ToolOf(c)))
  /\ outputData' = [outputData EXCEPT ![c] = <<>>]
  \* stdout.on('data', dataHandler) switches the stream to flowing mode
  /\ listening' = [listening EXCEPT ![c] = TRUE]
  /\ flowing' = TRUE
  /\ onceStderr' = [onceStderr EXCEPT ![c] = TRUE]
  /\ last' = NoLine
  /\ UNCHANGED <<outcome, requestId, timeout, elapsed, stdout, eof, ended, escaped,
                 handlerVars, settledBy, traceVars, credVars, chunkVars>>

\* part_002 lines 36-49: stdout emits a chunk, one line of the child's output
dataHandler(line) ==
  /\ impl = "processMcpToolUse"
  /\ flowing
  /\ \E c \in Calls : listening[c]
  /\ \A c \in Calls : listening[c] => Len(outputData[c]) < MaxData
  /\ LET collected == [c \in Calls |->
                         IF listening[c] THEN Append(outputData[c], line) ELSE outputData[c]]
         complete == {c \in Calls : listening[c] /\ ParsesAsJSON(collected[c])}
     IN /\ outputData' = collected
        /\ listening' = [c \in Calls |-> listening[c] /\ c \notin complete]
        /\ promise' = [c \in Calls |->
                         IF c \in complete
                         THEN SettleState(promise[c], Resolve(Raw(collected[c])))
                         ELSE promise[c]]
        /\ outcome' = [c \in Calls |->
                         IF c \in complete /\ promise[c] = "pending"
                         THEN Raw(collected[c]) ELSE outcome[c]]
        /\ settledBy' = [c \in Calls |->
                           IF c \in complete /\ promise[c] = "pending"
                           THEN line ELSE settledBy[c]]
  /\ last' = line
  /\ UNCHANGED <<requestId, toolName, timeout, elapsed, pipeVars, escaped, onceStderr,
                 handlerVars, traceVars, credVars, chunkVars>>

\* part_002 lines 54-57: the child writes on its stderr; every once-listener
\* still attached runs and is removed
StderrData ==
  /\ impl = "processMcpToolUse"
  /\ \E c \in Calls : onceStderr[c]
  /\ onceStderr' = [c \in Calls |-> FALSE]
  /\ promise' = [c \in Calls |->
                   IF onceStderr[c]
                   THEN SettleState(promise[c], Reject(<<"MCP error: ", StderrText>>))
                   ELSE promise[c]]
  /\ outcome' = [c \in Calls |->
                   IF onceStderr[c] /\ promise[c] = "pending"
                   THEN Error(<<"MCP error: ", StderrText>>) ELSE outcome[c]]
  /\ last' = NoLine
  /\ UNCHANGED <<requestId, toolName, listening, timeout, elapsed, pipeVars, escaped,
                 outputData, handlerVars, settledBy, traceVars, credVars, chunkVars>>

ToolUseNext ==
  \/ \E c \in Calls : ProcessMcpToolUse(c) /\ UNCHANGED <<impl, flowVars>>
  \/ \E line \in Lines : dataHandler(line) /\ UNCHANGED <<impl, flowVars>>
  \/ StderrData /\ UNCHANGED <<impl, flowVars>>

ToolUseSpec == ToolUseInit /\ [][ToolUseNext]_vars

\* ---- the orchestration flows ----

\* implementWithPrompt (src/scripts/ai-implement.js lines 131-372),
\* runManualImplementation with runMcpProcess (part_000 lines 83-229),
\* runWithAI (part_002 lines 62-193) and runWithMCP (part_001 lines 69-156)
Flows == {"implementWithPrompt", "runManualImplementation", "runWithAI", "runWithMCP"}

\* the implementation of a call each flow uses; runWithMCP issues no call
ImplOf(f) ==
  CASE f = "implementWithPrompt" -> "callMcpMethod"
    [] f = "runManualImplementation" -> "executeMcpCommand"
    [] f = "runWithAI" -> "processMcpToolUse"
    [] OTHER -> "none"

\* the calls a flow issues, at most
FlowCalls(f) == IF f = "runManualImplementation" THEN 2 ELSE 3

\* line 153: setTimeout(resolve, 5000)
INIT_WAIT_MS == 5000
\* part_000 line 100, part_001 line 154, part_002 line 80
START_WAIT_MS == 2000

StartupMs(f) == IF f = "implementWithPrompt" THEN INIT_WAIT_MS ELSE START_WAIT_MS

\* a replacement of StartupElapsed: the flow does not wait
NoWait(f, t) == TRUE

\* the timer of the start-up wait has run out
StartupElapsed(f, t) == t >= StartupMs(f)

\* a replacement of Kill: signalling a child that was signalled before fails
KillOnce(ch) == IF ch = "spawned" THEN "killed" ELSE "failed"

\* a replacement of Kill: the child is left running
NoKill(ch) == ch

\* lines 367-371; part_000 lines 214, 226; part_001 lines 146, 151; part_002
\* lines 180, 189: mcpProcess.kill() signals a child that was spawned
Kill(ch) == IF ch = "spawned" THEN "killed" ELSE ch

sessionVars == <<impl, callVars, pipeVars, escaped, toolUseVars, handlerVars, historyVars>>

\* the process of the flow runs
Up == main \in {"await", "catch"}

FlowInit ==
  /\ flow \in Flows
  /\ impl = ImplOf(flow)
  /\ InitSession
  /\ NoRuns
  /\ flowing = FALSE
  /\ input = NoInput
  /\ handled = NotRun
  /\ pc = "start"
  /\ flowPromise = "pending"
  /\ main = "await"
  /\ thrown = Undefined
  /\ exit = NotExited
  /\ child = "none"
  /\ uptime = 0
  /\ listingMs = 0
  /\ ran = {}

\* a promise is settled by the first resolve or reject only
SettleFlow(how) == IF flowPromise = "pending" THEN how ELSE flowPromise


\* what the steps outside the session throw
ApiError == Error(<<"Request failed with status code 500">>)
SpawnError == Error(<<"spawn npx ENOENT">>)
FallbackError == Error(<<"Command failed: gh api">>)

\* the flow returns (how = "resolved") or throws error: the child is killed
\* first
FinishWith(how, error) ==
  /\ child' = Kill(child)
  /\ flowPromise' = SettleFlow(how)
  /\ thrown' = IF flowPromise = "pending" /\ how = "rejected" THEN error ELSE thrown
  /\ pc' = IF how = "resolved" THEN "returned" ELSE "threw"

\* the same when the step that throws is the generative-text call
Finish(how) == FinishWith(how, ApiError)

Goto(p) == pc' = p /\ UNCHANGED <<flowPromise, thrown, child>>

\* spawn(): the child runs; or it cannot be started and spawn() returns a
\* ChildProcess whose 'error' event is emitted on the next tick; or spawn()
\* throws
Spawn ==
  /\ pc = "start"
  /\ \E r \in {"spawned", "failed", "throws"} :
       IF r # "throws"
       THEN child' = r /\ pc' = "wait" /\ UNCHANGED <<flowPromise, thrown, main, exit>>
       ELSE /\ child' = "none"
            /\ IF flow = "runWithAI"
               \* the async executor of part_002 line 63 rejects its own
               \* promise, which nobody handles; the flow's promise stays
               \* pending
               THEN /\ pc' = "hung"
                    /\ \E m \in {"await", "crashed"} :
                         main' = m /\ exit' = IF m = "crashed" THEN Exited(1, FALSE) ELSE exit
                    /\ UNCHANGED <<flowPromise, thrown>>
               ELSE /\ pc' = "threw"
                    /\ flowPromise' = "rejected"
                    /\ thrown' = SpawnError
                    /\ UNCHANGED <<main, exit>>
  /\ UNCHANGED <<flow, uptime, listingMs, ran, sessionVars, traceVars, credVars, chunkVars>>

\* the 'error' event of a child that could not be started: part_001 lines
\* 95-98 reject the flow's promise; the other flows have no listener and the
\* event is thrown as an uncaught exception
ErrorEvent ==
  /\ child = "failed"
  /\ child' = "dead"
  /\ IF flow = "runWithMCP"
     THEN /\ flowPromise' = SettleFlow("rejected")
          /\ thrown' = IF flowPromise = "pending" THEN SpawnError ELSE thrown
          /\ UNCHANGED <<main, exit>>
     ELSE main' = "crashed" /\ exit' = Exited(1, FALSE) /\ UNCHANGED <<flowPromise, thrown>>
  /\ UNCHANGED <<flow, pc, uptime, listingMs, ran, sessionVars, traceVars, credVars, chunkVars>>

\* the flow's promise has settled and main(), which awaits it, is to be
\* resumed: a microtask, which runs before a timer does and before time passes
MainDue == main = "await" /\ flowPromise # "pending"

\* time passes during the start-up wait
StartTick ==
  /\ pc = "wait"
  /\ child # "failed"
  /\ ~MainDue
  /\ ~StartupElapsed(flow, uptime)
  /\ uptime' = uptime + StartMs
  /\ UNCHANGED <<flow, pc, flowPromise, thrown, main, exit, child, listingMs, ran, sessionVars, traceVars, credVars, chunkVars>>

\* the timer of the start-up wait fires; runManualImplementation creates its
\* readline interface (part_000 lines 110-114)
StartupWait ==
  /\ pc = "wait"
  /\ child # "failed"
  /\ ~MainDue
  /\ StartupElapsed(flow, uptime)
  /\ pc' = CASE flow = "implementWithPrompt" -> "list_tools"
             [] flow = "runManualImplementation" -> "call"
             [] OTHER -> "api"
  /\ flowing' = IF flow = "runManualImplementation" THEN TRUE ELSE flowing
  /\ UNCHANGED <<flow, flowPromise, thrown, main, exit, child, uptime, listingMs, ran, impl, callVars, stdin,
                 stdout, eof, ended, escaped, toolUseVars, handlerVars, historyVars,
                 traceVars, credVars, chunkVars>>

\* lines 156-171: the list_tools request is written and toolsRL is created
ListTools(id) ==
  /\ pc = "list_tools"
  /\ stdin' = Append(stdin, [jsonrpc |-> "2.0", id |-> id, method |-> "list_tools",
                             name |-> "", arguments |-> "{}", sha |-> <<>>])
  /\ flowing' = TRUE
  /\ Goto("tools")
  /\ UNCHANGED <<flow, main, exit, uptime, listingMs, ran, impl, callVars, stdout, eof, ended, escaped,
                 toolUseVars, handlerVars, historyVars, traceVars, credVars, chunkVars>>

\* line 181: the delay of the timer of the tools listing
TOOLS_WAIT_MS == 5000

\* line 156: the id of the list_tools request, the first request the flow
\* writes
toolsRequestId == stdin[1].id

\* a replacement of ToolsDue: the listing has no timer
NoToolsTimer == FALSE

\* lines 177-181: the timer of the tools listing has run out
ToolsDue == listingMs >= TOOLS_WAIT_MS

\* lines 183-199: the line handler of toolsRL. JSON.parse of a line that is
\* not JSON throws, and so does reading .id of null; both are caught. On the
\* response with the listing's id: clearTimeout, toolsRL.close(), resolve
ToolsLine(line) ==
  IF LineId(line) = toolsRequestId
  THEN flowing' = FALSE /\ listingMs' = 0 /\ Goto("api")
  ELSE UNCHANGED <<flowing, listingMs, pc, flowPromise, thrown, child>>

\* the child writes a line while toolsRL reads a stream that holds nothing
ToolsWrite(line) ==
  /\ pc = "tools"
  /\ ~eof
  /\ flowing
  /\ stdout = <<>>
  /\ ToolsLine(line)
  /\ UNCHANGED <<flow, main, exit, uptime, ran, impl, callVars, stdin, stdout, eof, ended,
                 escaped, toolUseVars, handlerVars, historyVars, traceVars, credVars, chunkVars>>

\* toolsRL reads the line that waited longest
ToolsData ==
  /\ pc = "tools"
  /\ flowing
  /\ stdout # <<>>
  /\ ToolsLine(Head(stdout))
  /\ stdout' = Tail(stdout)
  /\ UNCHANGED <<flow, main, exit, uptime, ran, impl, callVars, stdin, eof, ended,
                 escaped, toolUseVars, handlerVars, historyVars, traceVars, credVars, chunkVars>>

\* time passes during the tools listing; the stream's events come first
ToolsTick ==
  /\ pc = "tools"
  /\ ~ToolsDue
  /\ listingMs < TOOLS_WAIT_MS
  /\ ~(flowing /\ (stdout # <<>> \/ (eof /\ ~ended)))
  /\ listingMs' = listingMs + StartMs
  /\ UNCHANGED <<flow, pc, flowPromise, thrown, main, exit, child, uptime, ran, sessionVars, traceVars, credVars, chunkVars>>

\* lines 177-181: the timer's callback: toolsRL.close(), resolve
ToolsTimeout ==
  /\ pc = "tools"
  /\ ToolsDue
  /\ flowing' = FALSE
  /\ listingMs' = 0
  /\ Goto("api")
  /\ UNCHANGED <<flow, main, exit, uptime, ran, impl, callVars, stdin, stdout, eof, ended,
                 escaped, toolUseVars, handlerVars, historyVars, traceVars, credVars, chunkVars>>

\* line 224 callAnthropicAPI, part_001 line 129 callAI: the generative-text
\* call returns or throws
CallApi ==
  /\ pc = "api"
  /\ flow \in {"implementWithPrompt", "runWithMCP"}
  /\ ran' = ran \cup {"callAI"}
  /\ \E ok \in BOOLEAN :
       IF ok THEN Goto(IF flow = "runWithMCP" THEN "comment" ELSE "call")
       ELSE Finish("rejected")
  /\ UNCHANGED <<flow, main, exit, uptime, listingMs, sessionVars, traceVars, credVars, chunkVars>>

\* part_001 lines 133-148: the success comment, kill, resolve
SuccessComment ==
  /\ pc = "comment"
  /\ ran' = ran \cup {"successComment"}
  /\ Finish("resolved")
  /\ UNCHANGED <<flow, main, exit, uptime, listingMs, sessionVars, traceVars, credVars, chunkVars>>

\* lines 235, 258, 272; part_000 lines 154, 201: the flow issues its next call
IssueCall(c, id) ==
  /\ pc = "call"
  /\ c <= FlowCalls(flow)
  /\ CallMcpMethod(c, id) \/ ExecuteMcpCommand(c, id)
  /\ ran' = ran \cup {"toolCall"}
                \cup (IF ToolOf(c) = "add_issue_comment" THEN {"successComment"} ELSE {})
  /\ Goto("await")
  /\ UNCHANGED <<flow, main, exit, uptime, listingMs, traceVars, credVars, chunkVars>>

\* a replacement of Resumed: the flow goes on without the call's outcome
NotAwaited(c) == TRUE

\* await callMcpMethod(...): the flow is resumed when the promise has settled
Resumed(c) == Settled(c)

\* the call the flow awaits
LastCall == CHOOSE c \in Calls : promise[c] # "unissued"
                                 /\ \A d \in Calls : d > c => promise[d] = "unissued"

\* a replacement of FallsBack: the rejection of any tool call starts the
\* fallback
FallsBackOnAny(tool, ok) == ~ok

\* lines 257-304: the catch block of the fallback is reached by the rejection
\* of create_or_update_file alone; the calls after it have a try/catch of
\* their own (lines 271-281 and 284-294), get_file_contents has one before it
\* (lines 234-251)
FallsBack(tool, ok) == tool = "create_or_update_file" /\ ~ok

\* the call the flow awaits has settled. implementWithPrompt catches the
\* rejection of get_file_contents and of add_issue_comment, and falls back to
\* the CLI when create_or_update_file rejects; runManualImplementation catches
\* the rejection of get_file_contents only; runWithAI catches nothing
Awaited ==
  /\ pc = "await"
  /\ Resumed(LastCall)
  /\ LET c == LastCall
         more == c < MaxCalls /\ c < FlowCalls(flow)
         ok == promise[c] = "resolved"
     IN CASE flow = "implementWithPrompt" ->
               IF FallsBack(toolName[c], ok) THEN Goto("fallback")
               ELSE IF more THEN Goto("call") ELSE Goto("ready")
          [] flow = "runManualImplementation" ->
               IF toolName[c] = "get_file_contents" /\ more THEN Goto("call")
               ELSE FinishWith(IF ok THEN "resolved" ELSE "rejected", outcome[c])
          [] OTHER ->
               IF ok THEN Goto("api") ELSE FinishWith("rejected", outcome[c])
  /\ UNCHANGED <<flow, main, exit, uptime, listingMs, ran, sessionVars, traceVars, credVars, chunkVars>>

\* lines 283-303: gh pr ready, whose failure is caught and logged, then
\* return through finally
Ready ==
  /\ pc = "ready"
  /\ \E ok \in BOOLEAN : ran' = IF ok THEN ran ELSE ran \cup {"readyFailed"}
  /\ Finish("resolved")
  /\ UNCHANGED <<flow, main, exit, uptime, listingMs, sessionVars, traceVars, credVars, chunkVars>>

\* a replacement of Rethrown: the error of the fallback is thrown
ThrowsLast(error, fallbackError) == fallbackError

\* line 360: throw error, the error the catch block of line 304 caught
Rethrown(error, fallbackError) == error

\* the commands of the fallback, in the order they run (lines 316, 334, 342)
FallbackSteps == <<"gh api", "gh pr comment", "gh pr ready">>

\* lines 304-362: the fallback through the CLI runs its commands and
\* returns, or one of them fails (the command `failed`, 0 for none) and the
\* original error is thrown
Fallback ==
  /\ pc = "fallback"
  /\ \E failed \in 0..Len(FallbackSteps) :
       /\ IF failed = 0 THEN FinishWith("resolved", Undefined)
          ELSE FinishWith("rejected", Rethrown(outcome[LastCall], FallbackError))
       /\ ran' = ran \cup {"fallback"}
                   \cup (IF failed = 0 \/ failed > 2 THEN {"successComment"} ELSE {})
  /\ UNCHANGED <<flow, main, exit, uptime, listingMs, sessionVars, traceVars, credVars, chunkVars>>

\* part_002 lines 92-134: the API answers with a tool use, which is processed
ApiToolUse(c) ==
  /\ pc = "api"
  /\ flow = "runWithAI"
  /\ ProcessMcpToolUse(c)
  /\ ran' = ran \cup {"callAI", "toolCall"}
  /\ Goto("await")
  /\ UNCHANGED <<impl, flow, main, exit, uptime, listingMs>>

\* part_002 lines 165-191: the API answers without a tool use the flow knows
\* (break, kill, resolve), or the call throws (kill, reject)
ApiDone ==
  /\ pc = "api"
  /\ flow = "runWithAI"
  /\ ran' = ran \cup {"callAI"}
  /\ \E ok \in BOOLEAN : Finish(IF ok THEN "resolved" ELSE "rejected")
  /\ UNCHANGED <<flow, main, exit, uptime, listingMs, sessionVars, traceVars, credVars, chunkVars>>

\* lines 405-422 and their variants: how main() ends once the flow has
\* settled. The outputs are written when GITHUB_OUTPUT is set (part_001 logs
\* them otherwise) and every flow returns status 'success'; part_000 lines
\* 251-256 run gh pr comment first, which may throw; part_002 line 70 exits
\* with 0 only when the result has file changes
Exits(f, settled) ==
  IF settled = "rejected" THEN {Exited(1, FALSE)}
  ELSE CASE f = "implementWithPrompt" -> {Exited(0, TRUE), Exited(0, FALSE)}
         [] f = "runWithMCP" -> {Exited(0, TRUE)}
         [] f = "runManualImplementation" ->
              {Exited(0, TRUE), Exited(0, FALSE), Exited(1, FALSE)}
         [] OTHER -> {Exited(c, o) : c \in {0, 1}, o \in BOOLEAN}

\* main() is resumed by the flow's promise: part_001 lines 185-201 run the
\* failure comment before process.exit; the others exit at once
MainResumes ==
  /\ MainDue
  /\ main' = IF flow = "runWithMCP" /\ flowPromise = "rejected" THEN "catch" ELSE "exited"
  /\ IF flow = "runWithMCP" /\ flowPromise = "rejected" THEN UNCHANGED exit
     ELSE \E e \in Exits(flow, flowPromise) : exit' = e
  /\ UNCHANGED <<flow, pc, flowPromise, thrown, child, uptime, listingMs, ran, sessionVars, traceVars, credVars, chunkVars>>

\* part_001 lines 189-201: the failure comment is done, process.exit(1)
MainExit ==
  /\ main = "catch"
  /\ main' = "exited"
  /\ exit' = Exited(1, FALSE)
  /\ ran' = ran \cup {"failureComment"}
  /\ UNCHANGED <<flow, pc, flowPromise, thrown, child, uptime, listingMs, sessionVars, traceVars, credVars, chunkVars>>

\* nothing is left that keeps the event loop alive: the flow awaits a
\* promise that nothing will settle, no timer is armed and the child is gone
Drained ==
  /\ main = "await"
  /\ flowPromise = "pending"
  /\ \/ pc = "hung"
     \/ /\ pc = "await"
        /\ ended
        /\ promise[LastCall] = "pending"
        /\ \A c \in Calls : timeout[c] # "armed"

\* the event loop is empty: the process ends with exit code 0, main() still
\* waiting
LoopEmpty ==
  /\ Drained
  /\ main' = "exited"
  /\ exit' = Exited(0, FALSE)
  /\ UNCHANGED <<flow, pc, flowPromise, thrown, child, uptime, listingMs, ran, sessionVars, traceVars, credVars, chunkVars>>

\* the chunks the child writes to runWithAI: one that completes a JSON value
\* and one that does not
Chunks == {JsonLine(Null), TextLine("warning: rate limit low")}

\* toolsRL reads a stream in which nothing waits, or lines wait: what waits
\* is read before the child writes more
ToolsReads == pc = "tools" /\ flowing

\* the child works while it is spawned and not killed
ChildUp == child = "spawned"

FlowNext ==
  \/ Up /\ Spawn
  \/ Up /\ ErrorEvent
  \/ Up /\ StartTick
  \/ Up /\ StartupWait
  \/ \E id \in Ids : Up /\ ListTools(id)
  \/ \E line \in Lines : Up /\ ChildUp /\ ToolsWrite(line)
  \/ Up /\ ToolsData
  \/ Up /\ ToolsTick
  \/ Up /\ ToolsTimeout
  \/ Up /\ CallApi
  \/ Up /\ SuccessComment
  \/ \E c \in Calls, id \in Ids : Up /\ IssueCall(c, id)
  \/ Up /\ Awaited
  \/ Up /\ Ready
  \/ Up /\ Fallback
  \/ \E c \in Calls : Up /\ ApiToolUse(c)
  \/ Up /\ ApiDone
  \/ Up /\ MainResumes
  \/ Up /\ MainExit
  \/ Up /\ LoopEmpty
  \/ \E line \in Lines : Up /\ ChildUp /\ ~ToolsReads /\ ChildWrite(line)
                          /\ UNCHANGED <<traceVars, credVars, chunkVars, flowVars>>
  \/ Up /\ ChildUp /\ ChildClose /\ UNCHANGED <<traceVars, credVars, chunkVars, flowVars>>
  \/ Up /\ pc # "tools" /\ StreamData /\ UNCHANGED <<traceVars, credVars, chunkVars, flowVars>>
  \/ Up /\ StreamEnd /\ UNCHANGED <<traceVars, credVars, chunkVars, flowVars>>
  \/ \E c \in Calls : Up /\ TimeoutFires(c) /\ UNCHANGED <<traceVars, credVars, chunkVars, flowVars>>
  \/ Up /\ Tick /\ UNCHANGED <<traceVars, credVars, chunkVars, flowVars>>
  \/ \E line \in Chunks : Up /\ ChildUp /\ dataHandler(line) /\ UNCHANGED <<impl, flowVars>>
  \/ Up /\ ChildUp /\ StderrData /\ UNCHANGED <<impl, flowVars>>

FlowSpec == FlowInit /\ [][FlowNext]_vars

\* ---- implementWithPrompt up to the end of its tools listing ----

ListingInit == FlowInit /\ flow = "implementWithPrompt"

ListingNext ==
  \/ Up /\ Spawn
  \/ Up /\ ErrorEvent
  \/ Up /\ StartTick
  \/ Up /\ StartupWait
  \/ \E id \in Ids : Up /\ ListTools(id)
  \/ \E line \in Lines : Up /\ ChildUp /\ ToolsWrite(line)
  \/ Up /\ ToolsData
  \/ Up /\ ToolsTick
  \/ Up /\ ToolsTimeout
  \/ Up /\ MainResumes
  \/ \E line \in Lines : Up /\ ChildUp /\ pc # "api" /\ ~ToolsReads /\ ChildWrite(line)
                          /\ UNCHANGED <<traceVars, credVars, chunkVars, flowVars>>
  \/ Up /\ ChildUp /\ pc # "api" /\ ChildClose /\ UNCHANGED <<traceVars, credVars, chunkVars, flowVars>>
  \/ Up /\ pc # "api" /\ StreamEnd /\ UNCHANGED <<traceVars, credVars, chunkVars, flowVars>>

\* the event loop runs the stream's events and a due timer's callback, and
\* time passes
ListingSpec ==
  /\ ListingInit
  /\ [][ListingNext]_vars
  /\ WF_vars(Up /\ ToolsData)
  /\ WF_vars(Up /\ pc # "api" /\ StreamEnd /\ UNCHANGED <<traceVars, credVars, chunkVars, flowVars>>)
  /\ WF_vars(Up /\ ToolsTick)
  /\ WF_vars(Up /\ ToolsTimeout)

\* ---- the session with a caller that may stop it ----

\* mcpProcess.kill() (lines 367-371), by a caller that does not wait for its
\* calls: the child is signalled, and nothing else happens in the caller
StopSession ==
  /\ child = "spawned"
  /\ child' = Kill(child)
  /\ last' = NoLine
  /\ UNCHANGED <<impl, callVars, pipeVars, escaped, toolUseVars, handlerVars, settledBy,
                 traceVars, credVars, chunkVars, flow, pc, flowPromise, thrown, main, exit, uptime, listingMs, ran>>

\* a killed child writes nothing more; it exits, which closes its stdout
StopNext ==
  \/ \E c \in Calls, id \in Ids : CallMcpMethod(c, id) /\ UNCHANGED <<traceVars, credVars, chunkVars, flowVars>>
  \/ \E c \in Calls, id \in Ids : ExecuteMcpCommand(c, id) /\ UNCHANGED <<traceVars, credVars, chunkVars, flowVars>>
  \/ \E line \in Lines : ChildUp /\ ChildWrite(line) /\ UNCHANGED <<traceVars, credVars, chunkVars, flowVars>>
  \/ ChildClose /\ UNCHANGED <<traceVars, credVars, chunkVars, flowVars>>
  \/ StreamData /\ UNCHANGED <<traceVars, credVars, chunkVars, flowVars>>
  \/ StreamEnd /\ UNCHANGED <<traceVars, credVars, chunkVars, flowVars>>
  \/ \E c \in Calls : TimeoutFires(c) /\ UNCHANGED <<traceVars, credVars, chunkVars, flowVars>>
  \/ Tick /\ UNCHANGED <<traceVars, credVars, chunkVars, flowVars>>
  \/ StopSession

StopSpec == Init /\ [][StopNext]_vars

\* ---- the session with a caller that may stop it more than once ----

\* mcpProcess.kill() on a child that was stopped before; ran keeps that it
\* was called
StopAgain ==
  /\ child # "spawned"
  /\ child' = Kill(child)
  /\ ran' = ran \cup {"killAgain"}
  /\ last' = NoLine
  /\ UNCHANGED <<impl, callVars, pipeVars, escaped, toolUseVars, handlerVars, settledBy,
                 traceVars, credVars, chunkVars, flow, pc, flowPromise, thrown, main, exit, uptime, listingMs>>

\* the id of call c in these sessions: the ids of the requests play no part
\* in stopping the child
KillId(c) == c % (MaxId + 1)

KillNext ==
  \/ \E c \in Calls : CallMcpMethod(c, KillId(c)) /\ UNCHANGED <<traceVars, credVars, chunkVars, flowVars>>
  \/ \E c \in Calls : ExecuteMcpCommand(c, KillId(c)) /\ UNCHANGED <<traceVars, credVars, chunkVars, flowVars>>
  \/ \E line \in Lines : ChildUp /\ ChildWrite(line) /\ UNCHANGED <<traceVars, credVars, chunkVars, flowVars>>
  \/ ChildClose /\ UNCHANGED <<traceVars, credVars, chunkVars, flowVars>>
  \/ StreamData /\ UNCHANGED <<traceVars, credVars, chunkVars, flowVars>>
  \/ StreamEnd /\ UNCHANGED <<traceVars, credVars, chunkVars, flowVars>>
  \/ \E c \in Calls : TimeoutFires(c) /\ UNCHANGED <<traceVars, credVars, chunkVars, flowVars>>
  \/ Tick /\ UNCHANGED <<traceVars, credVars, chunkVars, flowVars>>
  \/ StopSession
  \/ StopAgain

KillSpec == Init /\ [][KillNext]_vars

\* ---- the child's output in chunks ----
\* stdout emits 'data' with what the pipe held, wherever the line ends fall.
\* A piece is a whole line with its terminator, the first part of a line, or
\* the rest of a line with its terminator; a chunk is one or two pieces.
\* The flows await each call before they issue the next.

ChunkImpls == {"callMcpMethod", "processMcpToolUse"}
ChunkLines == { ResultLine(i) : i \in Ids } \cup { TextLine("warning: rate limit low") }

Whole(l) == [line |-> l, part |-> "whole"]
FirstPart(l) == [line |-> l, part |-> "first"]
RestPart(l) == [line |-> l, part |-> "rest"]

\* the chunks the child can write next, given the line it is in the middle of
ChunksAfter(mid) ==
  LET starts == IF mid = NoLine
                THEN { <<Whole(l)>> : l \in ChunkLines }
                ELSE { <<RestPart(mid)>> }
      more == { Whole(l) : l \in ChunkLines } \cup { FirstPart(l) : l \in ChunkLines }
  IN starts
       \cup (IF mid = NoLine THEN { <<FirstPart(l)>> : l \in ChunkLines } ELSE {})
       \cup { Append(ch, p) : ch \in starts, p \in more }

\* the notification is one line as the child wrote it
IsLine(note) ==
  \/ Len(note) = 1 /\ note[1].part = "whole"
  \/ /\ Len(note) = 2
     /\ note[1].part = "first"
     /\ note[2].part = "rest"
     /\ note[1].line = note[2].line

\* the text of a notification as JSON.parse sees it: part of a line, or two
\* lines, is no JSON text
HandedLine(note) == IF IsLine(note) THEN note[1].line ELSE TextLine("<broken>")

\* readline's framing of the text it holds followed by a chunk: the lines
\* that end in it, each with what it is made of, and the text after the last
\* line end, which the interface keeps
RECURSIVE Frame(_, _, _)
Frame(pieces, open, notes) ==
  IF pieces = <<>> THEN [notes |-> notes, rest |-> open]
  ELSE LET p == Head(pieces)
       IN IF p.part = "first"
          THEN Frame(Tail(pieces), <<p>>, notes)
          ELSE Frame(Tail(pieces), <<>>, Append(notes, Append(open, p)))

\* nothing of a chunk is left to hand to a handler
Idle == \A c \in Calls : emitting[c] = <<>>

ChunkInit ==
  /\ impl \in ChunkImpls
  /\ InitSession
  /\ NoRuns
  /\ NoFlow
  /\ flowing = FALSE
  /\ input = NoInput
  /\ handled = NotRun

\* the flow issues its next call when the one before has settled; the
\* call's readline interface is new and holds no text
ChunkCall(c, id) ==
  /\ Idle
  /\ Pending = {}
  /\ CallMcpMethod(c, id) \/ (id = 0 /\ ProcessMcpToolUse(c) /\ UNCHANGED impl)
  /\ UNCHANGED <<traceVars, credVars, chunkVars, flowVars>>

\* stdout emits 'data': every readline interface attached frames the chunk
\* behind the text it holds (callMcpMethod), every dataHandler attached is
\* handed the chunk as it is (processMcpToolUse)
ChunkData(chunk) ==
  /\ impl \in ChunkImpls
  /\ Idle
  /\ flowing
  /\ ~eof
  /\ chunk \in ChunksAfter(cut)
  /\ \A c \in Calls : listening[c] => Len(outputData[c]) < MaxData
  /\ LET framed == [c \in Calls |-> Frame(lineBuffer[c] \o chunk, <<>>, <<>>)]
     IN IF impl = "callMcpMethod"
        THEN /\ emitting' = [c \in Calls |-> IF listening[c] THEN framed[c].notes ELSE <<>>]
             /\ lineBuffer' = [c \in Calls |->
                                 IF listening[c] THEN framed[c].rest ELSE lineBuffer[c]]
        ELSE /\ emitting' = [c \in Calls |-> IF listening[c] THEN <<chunk>> ELSE <<>>]
             /\ UNCHANGED lineBuffer
  /\ cut' = IF chunk[Len(chunk)].part = "first" THEN chunk[Len(chunk)].line ELSE NoLine
  /\ last' = NoLine
  /\ UNCHANGED <<impl, callVars, pipeVars, escaped, toolUseVars, handlerVars, settledBy,
                 notified, traceVars, credVars, flowVars>>

\* the handler whose turn it is in the chunk being emitted
Turn == CHOOSE c \in Calls : emitting[c] # <<>> /\ \A d \in Calls : d < c => emitting[d] = <<>>

\* lines 80-114: readline emits 'line' to the onLine of call c, also when
\* an earlier line of the chunk has closed the interface; rl.close() drops
\* the interface with the text it holds and pauses stdout
EmitLine ==
  /\ impl = "callMcpMethod"
  /\ ~Idle
  /\ LET c == Turn
         note == Head(emitting[c])
         r == onLine(HandedLine(note), requestId[c])
         matches == r.act \in {"resolve", "reject"}
         closes == listening[c] /\ matches
     IN /\ promise' = [promise EXCEPT ![c] = SettleState(promise[c], r)]
        /\ outcome' = [outcome EXCEPT ![c] = IF Settles(c, r) THEN r.val ELSE outcome[c]]
        /\ settledBy' = [settledBy EXCEPT ![c] =
                           IF Settles(c, r) THEN note[1].line ELSE settledBy[c]]
        /\ listening' = [listening EXCEPT ![c] = listening[c] /\ ~matches]
        /\ flowing' = IF closes THEN FALSE ELSE flowing
        /\ timeout' = [timeout EXCEPT ![c] =
                         IF closes THEN ClearTimeout(timeout[c]) ELSE timeout[c]]
        /\ lineBuffer' = [lineBuffer EXCEPT ![c] = IF closes THEN <<>> ELSE lineBuffer[c]]
        /\ emitting' = [emitting EXCEPT ![c] = Tail(emitting[c])]
        /\ notified' = note
        /\ last' = IF IsLine(note) THEN note[1].line ELSE NoLine
  /\ UNCHANGED <<impl, requestId, toolName, elapsed, stdin, stdout, eof, ended, escaped,
                 toolUseVars, handlerVars, cut, traceVars, credVars, flowVars>>

\* JSON.parse(outputData) of the text of the pieces collected
ParsesAsOneJSON(data) == IsLine(data) /\ JSONParse(data[1].line).ok

\* part_002 lines 36-49: the dataHandler of call c is handed the chunk
EmitChunk ==
  /\ impl = "processMcpToolUse"
  /\ ~Idle
  /\ LET c == Turn
         note == Head(emitting[c])
         collected == outputData[c] \o note
         complete == ParsesAsOneJSON(collected)
     IN /\ outputData' = [outputData EXCEPT ![c] = collected]
        /\ listening' = [listening EXCEPT ![c] = listening[c] /\ ~complete]
        /\ promise' = [promise EXCEPT ![c] =
                         IF complete THEN SettleState(promise[c], Resolve(Raw(collected)))
                         ELSE promise[c]]
        /\ outcome' = [outcome EXCEPT ![c] =
                         IF complete /\ promise[c] = "pending" THEN Raw(collected)
                         ELSE outcome[c]]
        /\ settledBy' = [settledBy EXCEPT ![c] =
                           IF complete /\ promise[c] = "pending" THEN collected[1].line
                           ELSE settledBy[c]]
        /\ emitting' = [emitting EXCEPT ![c] = Tail(emitting[c])]
        /\ notified' = note
        /\ last' = IF IsLine(note) THEN note[1].line ELSE NoLine
  /\ UNCHANGED <<impl, requestId, toolName, timeout, elapsed, pipeVars, escaped,
                 onceStderr, handlerVars, lineBuffer, cut, traceVars, credVars, flowVars>>

\* the child closes its stdout: on 'end' a readline interface hands the text
\* it holds to its handler as a last line, and closes
ChunkEnd ==
  /\ impl \in ChunkImpls
  /\ Idle
  /\ flowing
  /\ ~eof
  /\ eof' = TRUE
  /\ EmitEnd
  /\ emitting' = [c \in Calls |->
                    IF impl = "callMcpMethod" /\ listening[c] /\ lineBuffer[c] # <<>>
                    THEN <<lineBuffer[c]>> ELSE <<>>]
  /\ lineBuffer' = [c \in Calls |-> <<>>]
  /\ last' = NoLine
  /\ UNCHANGED <<impl, promise, outcome, requestId, toolName, elapsed, stdin, stdout,
                 escaped, toolUseVars, handlerVars, settledBy, cut, notified,
                 traceVars, credVars, flowVars>>

ChunkNext ==
  \/ \E c \in Calls, id \in Ids : ChunkCall(c, id)
  \/ \E chunk \in ChunksAfter(cut) : ChunkData(chunk)
  \/ EmitLine
  \/ EmitChunk
  \/ ChunkEnd

ChunkSpec == ChunkInit /\ [][ChunkNext]_vars

\* ---- two runs of the script that differ in GITHUB_TOKEN only ----
\* The runs share the script, the other environment variables and the MCP
\* server, whose output is a function of the environment it is started in.

Tokens == {"", "ghp_one", "ghp_two"}
OtherNames == {"PR_BODY", "REPO_OWNER", "REPO_NAME", "PR_NUMBER", "BRANCH_NAME", "AI_API_KEY"}
StderrTexts == {"GitHub MCP Server running on stdio", "Bad credentials"}

\* !!value, as console.error prints it
Shown(b) == IF b THEN "true" ELSE "false"

\* lines 21-24, part_001 lines 19-31: what the script logs when a required
\* variable is missing; part_001 adds which of them are set
MissingLog(f, token) ==
  <<<<"Missing required environment variables">>>>
    \o (IF f = "runWithMCP"
        THEN << <<"PR_BODY", Shown("PR_BODY" \in envSet),
                  "REPO_OWNER", Shown("REPO_OWNER" \in envSet),
                  "REPO_NAME", Shown("REPO_NAME" \in envSet),
                  "PR_NUMBER", Shown("PR_NUMBER" \in envSet),
                  "BRANCH_NAME", Shown("BRANCH_NAME" \in envSet),
                  "AI_API_KEY", Shown("AI_API_KEY" \in envSet),
                  "GITHUB_TOKEN", Shown(token # "")>> >>
        ELSE <<>>)

\* lines 21, part_001 line 19: !PR_BODY || ... || !GITHUB_TOKEN
Missing(token) == envSet # OtherNames \/ token = ""

CredInit ==
  /\ flow \in Flows
  /\ impl = ImplOf(flow)
  /\ InitSession
  /\ flowing = FALSE
  /\ input = NoInput
  /\ handled = NotRun
  /\ pc = "none"
  /\ flowPromise = "pending"
  /\ main = "await"
  /\ thrown = Undefined
  /\ exit = NotExited
  /\ child = "none"
  /\ uptime = 0
  /\ listingMs = 0
  /\ ran = {}
  /\ cred \in [Runs -> Tokens]
  /\ envSet \in SUBSET OtherNames
  /\ at = [r \in Runs |-> "load"]
  /\ childEnv = [r \in Runs |-> ""]
  /\ hostLog = [r \in Runs |-> <<>>]

\* what the runs leave alone
CredRest ==
  UNCHANGED <<impl, callVars, pipeVars, escaped, toolUseVars, handlerVars, historyVars,
              traceVars, chunkVars, flowVars, cred, envSet>>

\* lines 9-24: the script loads; process.exit(1) when a variable is missing
Validate ==
  /\ \E r \in Runs : at[r] = "load"
  /\ at' = [r \in Runs |->
              IF at[r] # "load" THEN at[r]
              ELSE IF Missing(cred[r]) THEN "exited" ELSE "main"]
  /\ hostLog' = [r \in Runs |->
                   IF at[r] = "load" /\ Missing(cred[r])
                   THEN hostLog[r] \o MissingLog(flow, cred[r]) ELSE hostLog[r]]
  /\ UNCHANGED childEnv
  /\ CredRest

\* lines 136-144: spawn with GITHUB_PERSONAL_ACCESS_TOKEN: GITHUB_TOKEN
SpawnWithToken ==
  /\ \E r \in Runs : at[r] = "main"
  /\ at' = [r \in Runs |-> IF at[r] = "main" THEN "spawned" ELSE at[r]]
  /\ childEnv' = [r \in Runs |-> IF at[r] = "main" THEN cred[r] ELSE childEnv[r]]
  /\ hostLog' = [r \in Runs |->
                   IF at[r] = "main" THEN Append(hostLog[r], <<"Starting MCP server...">>)
                   ELSE hostLog[r]]
  /\ CredRest

\* lines 147-149: the child writes on its stderr what its program writes in
\* the environment it has, and the script logs it
LogStderr(server) ==
  /\ \E r \in Runs : at[r] = "spawned"
  /\ at' = [r \in Runs |-> IF at[r] = "spawned" THEN "logged" ELSE at[r]]
  /\ hostLog' = [r \in Runs |->
                   IF at[r] = "spawned"
                   THEN Append(hostLog[r], <<"MCP stderr: ", server[childEnv[r]]>>)
                   ELSE hostLog[r]]
  /\ UNCHANGED childEnv
  /\ CredRest

CredNext ==
  \/ Validate
  \/ SpawnWithToken
  \/ \E server \in [Tokens -> StderrTexts] : LogStderr(server)

CredSpec == CredInit /\ [][CredNext]_vars

\* ------------------------------------------------------------ properties

TimedOut(c) == promise[c] = "rejected" /\ outcome[c] = Error(TimeoutMessage(toolName[c]))

\* C1: every call that is issued is eventually settled (resolved, rejected
\* with a protocol error, or rejected with a timeout), whatever the child does
\* afterwards; no call stays pending forever.
C1_EveryCallSettles ==
  \A c \in Calls : (promise[c] = "pending") ~> Settled(c)

\* C2: of a call's two settling events at most one takes effect: a call a
\* response has settled never has its timer fire, a call whose timer has fired
\* is never settled by a response, and the outcome of a settled call never
\* changes.
C2_OneSettlingEvent ==
  /\ [](\A c \in Calls : ~(timeout[c] = "fired" /\ settledBy[c] # NoLine))
  /\ [][\A c \in Calls :
          /\ settledBy[c] # NoLine => timeout'[c] # "fired"
          /\ timeout[c] = "fired" => settledBy'[c] = NoLine
          /\ Settled(c) => promise'[c] = promise[c] /\ outcome'[c] = outcome[c]]_vars

\* a response settled call d and cleared its timer, and it carried the id of
\* the earlier call c, whose timer had fired: c keeps its timeout
C2_BothEventsSeen ==
  \E c, d \in Calls :
    /\ c < d
    /\ timeout[c] = "fired" /\ TimedOut(c)
    /\ settledBy[d] # NoLine /\ timeout[d] = "cleared"
    /\ LineId(settledBy[d]) = requestId[c]

\* C3: two calls with distinct ids that are outstanding at the same time both
\* resolve, each with the result of the response that carries its own id, in
\* whichever order the two responses arrive.
C3_ConcurrentCallsBothResolve ==
  \A c, d \in Calls :
    ( /\ c # d /\ requestId[c] # requestId[d]
      /\ d \in peers[c]
      /\ answered[c] = "result"
      /\ settledBy[d] = ResultLine(requestId[d]) )
    => promise[c] # "rejected"

\* C4: a response that arrives for a call after the call's timer has fired is
\* discarded: the call keeps its timeout rejection, and the response settles
\* no other call.
C4_LateResponseDiscarded ==
  \A c, d \in Calls :
    (c # d /\ answered[c] = "late")
    => /\ TimedOut(c)
       /\ ~( /\ settledBy[d] # NoLine
             /\ LineId(settledBy[d]) = requestId[c]
             /\ behind[d] > 0 )

\* C5: a well-formed response whose id is the id of no pending call settles
\* no call, and no exception leaves the line handler.
C5_ForeignResponseIgnored ==
  /\ [](~escaped)
  /\ [][Foreign(last') =>
          /\ promise' = promise /\ outcome' = outcome
          /\ timeout' = timeout /\ listening' = listening]_vars

\* stdout has just emitted a response with another id to the handler of a
\* pending call
C5_ForeignResponseSeen ==
  /\ last \in ResponseLines
  /\ \E c \in Calls :
       /\ promise[c] = "pending" /\ listening[c]
       /\ requestId[c] # LineId(last)
       /\ \A d \in Calls \ {c} : promise[d] = "unissued"

\* C6: a line that is no response envelope (diagnostic text, malformed JSON,
\* JSON that is no object) settles no call and raises nothing: the call stays
\* pending, and a later valid response still resolves it.
C6_NonEnvelopeNeverSettles ==
  \A c \in Calls : settledBy[c] \notin DiagnosticLines

\* C7: a call that gets no matching response within 30000 ms is rejected with
\* a timeout when the 30000 ms have passed, and no call is rejected with a
\* timeout earlier.
C7_TimeoutAtBudget ==
  \A c \in Calls :
    /\ TimedOut(c) => elapsed[c] >= TIMEOUT_MS
    /\ (promise[c] = "pending" /\ answered[c] = "no") => elapsed[c] <= TIMEOUT_MS

\* the handlers were run on a response that carries the id of the call and
\* no error
Matched == handled # NotRun /\ IdMatches(input.line.val, input.id)
Payload == input.line.val.result
HasText(result) == result.t = "object" /\ result.shape = "content"

\* C8, as amended: a matching response without error resolves the call with
\* the JSON-parsed value of result.content[0].text when that text is valid
\* JSON, with the raw text when the text is not empty and not valid JSON, and
\* with the result itself when the result has no such text or the text is
\* empty; both versions of callMcpMethod compute the same value.
C8_DecodedPayload ==
  (Matched /\ ~Truthy(input.line.val.error)) =>
    /\ handled[1] =
         Resolve(IF HasText(Payload) /\ Payload.text # ""
                 THEN (IF JSONParseText(Payload.text).ok
                       THEN JSONParseText(Payload.text).val
                       ELSE Str(Payload.text))
                 ELSE Payload)
    /\ handled[2] = handled[1]

\* C8, as claimed: the raw text whenever the text is present and not valid
\* JSON.
C8_DecodedPayloadAsClaimed ==
  (Matched /\ ~Truthy(input.line.val.error)) =>
    /\ handled[1] =
         Resolve(IF HasText(Payload)
                 THEN (IF JSONParseText(Payload.text).ok
                       THEN JSONParseText(Payload.text).val
                       ELSE Str(Payload.text))
                 ELSE Payload)
    /\ handled[2] = handled[1]

\* the handlers resolved a matching response whose text is no JSON with the
\* raw text
C8_RawTextSeen ==
  /\ Matched
  /\ Payload = ContentObject("README missing")
  /\ input.line.val.error = Undefined
  /\ handled[1] = Resolve(Str("README missing"))

\* C9: a matching response that carries an error rejects the call, never
\* resolves it, and the rejection carries the error payload of the server.
C9_ErrorRejects ==
  /\ [](\A c \in Calls :
          (settledBy[c] # NoLine /\ Truthy(settledBy[c].val.error)) =>
            /\ promise[c] = "rejected"
            /\ outcome[c] =
                 Error(<<"MCP error: ", JSONStringify(settledBy[c].val.error)>>))
  /\ [][\A c \in Calls :
          ( /\ promise[c] = "pending" /\ listening[c]
            /\ last' = ErrorLine(requestId[c]) )
          => promise'[c] = "rejected" /\ settledBy'[c] = last']_vars

\* stdout has just emitted the error response that rejected a call
C9_ErrorRejectionSeen ==
  \E c \in Calls :
    /\ settledBy[c] = ErrorLine(requestId[c])
    /\ last = settledBy[c]
    /\ promise[c] = "rejected"

\* the message of an Error has this part
Carries(error, part) == \E i \in DOMAIN error.message : error.message[i] = part

\* C10: the error a failed call is rejected with carries the tool name, the
\* arguments of the call, and the cause.
C10_ErrorCarriesCallAndCause ==
  \A c \in Calls :
    promise[c] = "rejected" =>
      /\ Carries(outcome[c], toolName[c])
      /\ Carries(outcome[c], ArgumentsOf(toolName[c]))

\* C11: the timeout error a timed-out call is rejected with references the
\* id of the call.
C11_TimeoutNamesId ==
  \A c \in Calls : TimedOut(c) => Carries(outcome[c], ToString(requestId[c]))

\* call d was issued after the timer of call c had fired
IssuedAfterTimeout(c, d) ==
  /\ c < d /\ promise[d] # "unissued"
  /\ timeout[c] = "fired" /\ TimedOut(c)
  /\ d \notin peers[c]

\* C12: after a call has timed out the session stays usable: a call issued
\* afterwards is settled by its own response, one the child wrote after the
\* call was issued, and is not rejected when that response arrived within its
\* budget.
C12_UsableAfterTimeout ==
  \A c, d \in Calls :
    IssuedAfterTimeout(c, d) =>
      /\ answered[d] = "result" => promise[d] # "rejected"
      /\ settledBy[d] # NoLine => behind[d] = 0

\* C13: the settlement of one call leaves every other call that is in flight
\* under another id as it was: the other call stays pending and listening, and the child's
\* stdout keeps flowing to it, so that it receives the lines written afterwards.
C13_SettlementLeavesOthers ==
  [][ \A c, d \in Calls :
        ( /\ c # d /\ requestId[c] # requestId[d]
          /\ promise[c] = "pending" /\ Settled(c)'
          /\ promise[d] = "pending" /\ listening[d] /\ flowing )
        => /\ promise'[d] = "pending"
           /\ listening'[d]
           /\ flowing' ]_vars

\* C14: whenever the flow has returned or thrown and its child was spawned,
\* the child has been signalled to terminate: on normal completion, on an
\* exception of a step, and after a cascade of call timeouts.
C14_KilledBeforeReturn ==
  flowPromise # "pending" => child # "spawned"

\* implementWithPrompt has thrown after every call it issued timed out, and
\* its child is killed
C14_KilledAfterTimeouts ==
  /\ flow = "implementWithPrompt"
  /\ pc = "threw"
  /\ child = "killed"
  /\ promise[1] # "unissued"
  /\ \A c \in Calls : promise[c] # "unissued" => TimedOut(c)

\* C18: no request is written to the child's stdin before the start-up wait
\* after spawn has fully elapsed.
C18_NoWriteBeforeStartup ==
  stdin # <<>> => uptime >= StartupMs(flow)

\* implementWithPrompt has written its first request, 5000 ms after spawn
C18_FirstWriteAfterWait ==
  /\ flow = "implementWithPrompt"
  /\ Len(stdin) = 1
  /\ pc = "tools"
  /\ uptime >= INIT_WAIT_MS

\* C19: a child that cannot be spawned is fatal to the session: the failure
\* reaches the flow (its promise rejects, or the process ends on the error),
\* and no later step of the flow runs: no generative-text call, no tool call,
\* no success comment.
C19_SpawnFailureIsFatal ==
  /\ child = "dead" => (flowPromise = "rejected" \/ main = "crashed")
  /\ child \in {"failed", "dead"} =>
       ran \cap {"callAI", "toolCall", "successComment"} = {}

\* C15: stopping the session rejects every call that is pending at that
\* moment.
C15_StopRejectsPending ==
  [][ (child = "spawned" /\ child' = "killed")
        => \A c \in Calls : promise[c] = "pending" => promise'[c] = "rejected" ]_vars

\* C16: a call issued after the child has been killed is rejected at once,
\* and no request is written for it.
C16_StoppedIsTerminal ==
  [][ \A c \in Calls :
        (child = "killed" /\ promise[c] = "unissued" /\ promise'[c] # "unissued")
        => (promise'[c] = "rejected" /\ stdin' = stdin) ]_vars

\* C17: at every moment of a session the ids of the calls that are
\* outstanding are pairwise distinct.
C17_OutstandingIdsDistinct ==
  \A c, d \in Pending : c # d => requestId[c] # requestId[d]

\* C20: output on the child's stderr is only logged: the step in which stderr
\* emits data settles no call and changes the outcome of none.
C20_StderrOnlyLogged ==
  [][ StderrData => (promise' = promise /\ outcome' = outcome) ]_vars

\* C25: a call is resolved only with the result the server produced for its
\* own request: the response that resolves it was written after the call was
\* issued, not one left over from an earlier request.
C25_ResolvedByOwnResponse ==
  \A c \in Calls :
    (promise[c] = "resolved" /\ settledBy[c] # NoLine) => behind[c] = 0

\* the line readers attached to the child's stdout, and the armed call timers
Readers == {c \in Calls : listening[c]}
ArmedTimers == {c \in Calls : timeout[c] = "armed"}

\* C26: listeners and timers do not accumulate: callMcpMethod has as many
\* line readers attached and as many call timers armed as it has calls that
\* are not settled, and clearing a timer that has fired changes nothing.
C26_ReadersAndTimersMatchPending ==
  impl = "callMcpMethod" =>
    /\ Cardinality(Readers) = Cardinality(Pending)
    /\ Cardinality(ArmedTimers) = Cardinality(Pending)
    /\ ClearTimeout("fired") = "fired"

\* the reader of the tools listing is attached
ToolsReader == IF pc = "tools" /\ ~ended THEN 1 ELSE 0
\* the listing request awaits its response
ToolsAwaited == IF pc = "tools" THEN 1 ELSE 0

\* C28: in implementWithPrompt at most one request awaits a response and at
\* most one line reader is attached to the child's stdout at any time.
C28_OneRequestOneReader ==
  flow = "implementWithPrompt" =>
    /\ Cardinality(Pending) + ToolsAwaited <= 1
    /\ Cardinality(Readers) + ToolsReader <= 1

\* the second tool call is awaited: the listing and the first call are over
C28_SecondCallAlone ==
  /\ flow = "implementWithPrompt"
  /\ pc = "await"
  /\ promise[2] = "pending"
  /\ listening[2]

\* C29: the wait of the tools listing ends, and ends once: the flow goes on to
\* the README generation when the response with the listing's id arrives or
\* when the 5000 ms timer fires, also when the child never answers or
\* closes its stdout; it does not come back to the listing.
C29_ListingNeverBlocks ==
  /\ (pc = "tools") ~> (pc = "api")
  /\ [][pc = "api" => pc' = "api"]_vars

\* the child has closed its stdout without an answer and the timer of the
\* listing has run out
C29_ListingTimedOut ==
  /\ pc = "tools"
  /\ ended
  /\ ToolsDue

\* C30: in implementWithPrompt the create_or_update_file request carries a
\* sha exactly when the get_file_contents before it resolved with a result
\* that has a sha, and it is that sha; when get_file_contents was rejected the
\* flow has not aborted and its create_or_update_file carries no sha
ShaOfResult(c) ==
  IF promise[c] = "resolved" /\ outcome[c].t = "object" /\ outcome[c].shape = "sha"
  THEN <<outcome[c].sha>> ELSE <<>>

C30_ShaFollowsFileCheck ==
  flow = "implementWithPrompt" =>
    /\ promise[2] # "unissued" =>
          /\ Len(stdin) >= 3
          /\ stdin[3].name = "create_or_update_file"
          /\ stdin[3].sha = ShaOfResult(1)
          /\ promise[1] = "rejected" => stdin[3].sha = <<>>
    /\ (promise[1] = "rejected" /\ promise[2] = "unissued" /\ Up /\ child = "spawned")
          => (flowPromise = "pending" /\ pc \in {"await", "call"})

\* get_file_contents was rejected and create_or_update_file went out without
\* a sha
C30_CreatedAfterRejection ==
  /\ flow = "implementWithPrompt"
  /\ promise[1] = "rejected"
  /\ promise[2] # "unissued"
  /\ stdin[3].sha = <<>>

\* get_file_contents resolved with a sha, which create_or_update_file carries
C30_UpdatedWithSha ==
  /\ flow = "implementWithPrompt"
  /\ promise[1] = "resolved"
  /\ promise[2] # "unissued"
  /\ stdin[3].sha = <<"def456">>

C27_ResponseSeenByItsCall ==
  /\ [](\A c \in Calls : (promise[c] = "pending" /\ ~ended) => listening[c])
  /\ [][\A c \in Calls :
          (promise[c] = "pending" /\ last' \in ResponseLines /\ LineId(last') = requestId[c])
            => (Settled(c)' /\ settledBy'[c] = last')]_vars

\* the child's response was emitted with no time passed since the request,
\* and settled its call
C27_AnsweredAtOnce ==
  \E c \in Calls :
    /\ promise[c] = "resolved"
    /\ settledBy[c] = ResultLine(requestId[c])
    /\ last = settledBy[c]
    /\ \A d \in Calls : elapsed[d] = 0

\* C21: however the child's output is split into chunks, what a call's
\* handler is handed is a line the child wrote, whole: never part of a line
\* and never two lines in one
C21_HandedWholeLines == notified = <<>> \/ IsLine(notified)

\* C24: the first part of a line that has arrived without its terminator is
\* kept until the terminator arrives, also across calls: while the child is
\* in the middle of a line, the reader of the call that listens holds the
\* line's first part
C24_FragmentKeptAcrossCalls ==
  \A c \in Calls :
    (impl = "callMcpMethod" /\ Idle /\ listening[c] /\ cut # NoLine)
      => lineBuffer[c] = <<FirstPart(cut)>>

\* C23: the access credential is only passed on to the child's environment:
\* two runs that differ in the credential only have logged the same
C23_LogIndependentOfCredential ==
  /\ \A r \in Runs : childEnv[r] \in {"", cred[r]}
  /\ hostLog[1] = hostLog[2]

\* the call of the flow for `tool` was rejected
Rejected(tool) == \E c \in Calls : toolName[c] = tool /\ promise[c] = "rejected"

\* the flow is over: it returned or threw
FlowOver == pc \in {"returned", "threw"}

C32_OriginalErrorThrown ==
  (flow = "implementWithPrompt" /\ "fallback" \in ran /\ flowPromise = "rejected") =>
    /\ \E c \in Calls : /\ toolName[c] = "create_or_update_file"
                         /\ promise[c] = "rejected"
                         /\ thrown = outcome[c]
    /\ thrown # FallbackError
    /\ child # "spawned"

\* the fallback failed after a rejected create_or_update_file and main() has
\* not resumed yet
C32_BothFailed ==
  /\ flow = "implementWithPrompt"
  /\ "fallback" \in ran
  /\ flowPromise = "rejected"
  /\ thrown # Undefined
  /\ child = "killed"
  /\ main = "await"

\* C33: in implementWithPrompt the process exits with code 0 exactly when
\* the flow returned (its status is always 'success'), with code 1 in every
\* other case, and the outputs status and message are written only when the
\* flow returned.
C33_ExitCodeFollowsStatus ==
  (flow = "implementWithPrompt" /\ exit # NotExited) =>
    /\ exit.code \in {0, 1}
    /\ exit.code = 0 <=> flowPromise = "resolved"
    /\ exit.outputs => flowPromise = "resolved"

====
